---- MODULE Spec2Model ----
(***************************************************************************)
(* Model of PetIBM's Taira-Colonius coupling-operator build                *)
(* (TairaColoniusSolver<2>::generateBNQ with the discrete delta kernel     *)
(* dhRoma/delta) and of the projection time-stepper's phase order          *)
(* (NavierStokesSolver::advance).                                          *)
(*                                                                         *)
(* PetscReal values are modelled as exact rationals <<num, den>> in lowest *)
(* terms with den > 0.  The inputs are kept on displacements where the     *)
(* kernel's square root is rational, so every value is computed exactly.   *)
(***************************************************************************)
EXTENDS Integers, Sequences, FiniteSets

VARIABLES
    \* ---- inputs of generateBNQ (members of the solver) ----
    h,                      \* grid spacing (rational)
    x, y,                   \* body-point coordinates, indexed by point
    boundaryPointIndices,   \* per process: the points it owns, in order
    bodyGlobalIndices,      \* per point: its column in lambda
    BN,                     \* diagonal scaling vector, per global row
    \* ---- state of generateBNQ, per process ----
    pc,                     \* position of each process in generateBNQ
    failedAt,               \* the call whose ierr was nonzero, or "none"
    d_nnz, o_nnz,           \* the nnz arrays: "null", a sequence, or "freed"
    BNQstate,               \* state of the handle BNQ on each process
    prealloc,               \* the counts handed to MatMPIAIJSetPreallocation
    BNQ,                    \* global row -> (column -> value) inserted so far
    QT,                     \* "null" or lambda index -> (row -> value)
    \* ---- kernel evaluation (dhRoma as a pure function) ----
    kx, kh, kval, kneg, kdone,
    \* ---- time stepper ----
    isRefP, stepping, phaseLog, stepCount, iterLog

vars == << h, x, y, boundaryPointIndices, bodyGlobalIndices, BN,
           pc, failedAt, d_nnz, o_nnz, BNQstate, prealloc, BNQ, QT,
           kx, kh, kval, kneg, kdone,
           isRefP, stepping, phaseLog, stepCount, iterLog >>

buildVars == << h, x, y, boundaryPointIndices, bodyGlobalIndices, BN,
                pc, failedAt, d_nnz, o_nnz, BNQstate, prealloc, BNQ, QT >>
kernelVars == << kx, kh, kval, kneg, kdone >>
stepVars == << isRefP, stepping, phaseLog, stepCount, iterLog >>

-----------------------------------------------------------------------------
(* Bounds of the model *)

\* pressure cells per axis of the global mesh
Nx == 4
Ny == 2
\* number of MPI processes
NumProcs == 2
\* largest number of body points
MaxBody == 2
\* the kernel is evaluated up to this many half-spacings from its centre
MaxHalfSteps == 6
\* time steps taken by the stepper
MaxSteps == 3

-----------------------------------------------------------------------------
(* Exact rational arithmetic standing for PetscReal *)

RECURSIVE Gcd(_, _)
Gcd(a, b) == IF b = 0 THEN a ELSE Gcd(b, a % b)

IAbs(n) == IF n < 0 THEN -n ELSE n

R(n, d) ==
    LET s == IF d < 0 THEN -1 ELSE 1
        g == Gcd(IAbs(n), IAbs(d))
    IN  << (s * n) \div g, (s * d) \div g >>

RatInt(n) == << n, 1 >>
RatAdd(a, b) == R(a[1] * b[2] + b[1] * a[2], a[2] * b[2])
RatSub(a, b) == R(a[1] * b[2] - b[1] * a[2], a[2] * b[2])
RatMul(a, b) == R(a[1] * b[1], a[2] * b[2])
RatDiv(a, b) == R(a[1] * b[2], a[2] * b[1])
RatNeg(a) == << -a[1], a[2] >>
RatLt(a, b) == a[1] * b[2] < b[1] * a[2]
RatLe(a, b) == a[1] * b[2] <= b[1] * a[2]
RatGt(a, b) == RatLt(b, a)

\* fabs
fabs(a) == << IAbs(a[1]), a[2] >>

\* sqrt of a natural number that is a perfect square
ISqrt(n) == CHOOSE s \in 0..n : s * s = n

\* sqrt, exact on the rationals the model feeds it
sqrt(a) == << ISqrt(a[1]), ISqrt(a[2]) >>

\* conversion of a non-negative PetscReal to PetscInt: truncation
RealToInt(a) == a[1] \div a[2]

-----------------------------------------------------------------------------
(* The discrete delta kernel *)

\* the branch taken for 0.5 < r <= 1.5
dhRomaOuter(r, hh) ==
    LET omr == RatSub(RatInt(1), r)
        rad == RatAdd(RatMul(RatInt(-3), RatMul(omr, omr)), RatInt(1))
    IN  RatMul(RatDiv(RatInt(1), RatMul(RatInt(6), hh)),
               RatSub(RatSub(RatInt(5), RatMul(RatInt(3), r)), sqrt(rad)))

\* the inner branch with the sign of the square root flipped
dhRomaInnerFlipped(r, hh) ==
    LET rad == RatAdd(RatMul(RatInt(-3), RatMul(r, r)), RatInt(1))
    IN  RatMul(RatDiv(RatInt(1), RatMul(RatInt(3), hh)),
               RatSub(RatInt(1), sqrt(rad)))

\* the branch taken for r <= 0.5
dhRomaInner(r, hh) ==
    LET rad == RatAdd(RatMul(RatInt(-3), RatMul(r, r)), RatInt(1))
    IN  RatMul(RatDiv(RatInt(1), RatMul(RatInt(3), hh)),
               RatAdd(RatInt(1), sqrt(rad)))

dhRoma(xx, hh) ==
    LET r == RatDiv(fabs(xx), hh)
    IN  IF RatGt(r, R(3, 2)) THEN RatInt(0)
        ELSE IF RatGt(r, R(1, 2)) /\ RatLe(r, R(3, 2)) THEN dhRomaOuter(r, hh)
        ELSE dhRomaInner(r, hh)

delta(xx, yy, hh) == RatMul(dhRoma(xx, hh), dhRoma(yy, hh))

-----------------------------------------------------------------------------
(* Mesh, partition and index layout read by generateBNQ *)

Procs == 0 .. (NumProcs - 1)

\* mesh->x[i], mesh->y[j]: uniform mesh with origin 0
meshX(i) == RatMul(RatInt(i), h)
meshY(j) == RatMul(RatInt(j), h)

\* pressure cells along x owned by process p (the mesh is split along x)
PxCount(p) == (Nx \div NumProcs) + (IF (Nx % NumProcs) > p THEN 1 ELSE 0)
RECURSIVE PxStart(_)
PxStart(p) == IF p = 0 THEN 0 ELSE PxStart(p - 1) + PxCount(p - 1)

\* DMDAGetCorners(uda): mstart, nstart, m, n
UCorners(p) ==
    [ mstart |-> PxStart(p), nstart |-> 0,
      m |-> PxCount(p) - (IF p = NumProcs - 1 THEN 1 ELSE 0), n |-> Ny ]

\* DMDAGetCorners(vda): mstart, nstart, m, n
VCorners(p) ==
    [ mstart |-> PxStart(p), nstart |-> 0, m |-> PxCount(p), n |-> Ny - 1 ]

\* VecGetOwnershipRange(q)
qLocalSize(p) == UCorners(p).m * UCorners(p).n + VCorners(p).m * VCorners(p).n
RECURSIVE qStart(_)
qStart(p) == IF p = 0 THEN 0 ELSE qStart(p - 1) + qLocalSize(p - 1)
qEnd(p) == qStart(p) + qLocalSize(p)
QSize == qStart(NumProcs)
Rows == 0 .. (QSize - 1)

numBoundaryPointsOnProcess(procIdx) == Len(boundaryPointIndices[procIdx])

\* VecGetOwnershipRange(lambda): lambda packs, per process, its pressure
\* cells, then the x-forces and then the y-forces of its body points
pLocalSize(p) == PxCount(p) * Ny
lambdaLocalSize(p) == pLocalSize(p) + 2 * numBoundaryPointsOnProcess(p)
RECURSIVE lambdaStart(_)
lambdaStart(p) ==
    IF p = 0 THEN 0 ELSE lambdaStart(p - 1) + lambdaLocalSize(p - 1)
lambdaEnd(p) == lambdaStart(p) + lambdaLocalSize(p)
LambdaSize == lambdaStart(NumProcs)

\* first body-force column of process p
bodyStart(p) == lambdaStart(p) + pLocalSize(p)

\* the process owning pressure column i
POwner(i) == CHOOSE p \in Procs : PxStart(p) <= i /\ i < PxStart(p) + PxCount(p)

\* pMapping as read through DMDAVecGetArray: global index of cell (j, i)
pGlobalIdx(j, i) ==
    LET p == POwner(i)
    IN  lambdaStart(p) + j * PxCount(p) + (i - PxStart(p))

PressureCols == { pGlobalIdx(j, i) : j \in 0 .. (Ny - 1), i \in 0 .. (Nx - 1) }

\* the face visited when localIdx = k on process p: U faces row by row,
\* then V faces row by row
FaceOf(p, k) ==
    LET u == UCorners(p)
        v == VCorners(p)
        nu == u.m * u.n
    IN  IF k < nu
        THEN [ comp |-> "U", j |-> u.nstart + (k \div u.m),
               i |-> u.mstart + (k % u.m) ]
        ELSE [ comp |-> "V", j |-> v.nstart + ((k - nu) \div v.m),
               i |-> v.mstart + ((k - nu) % v.m) ]

RowOwner(row) == CHOOSE p \in Procs : qStart(p) <= row /\ row < qEnd(p)
FaceOfRow(row) == FaceOf(RowOwner(row), row - qStart(RowOwner(row)))

\* xCoord, yCoord of a face
xCoord(f) ==
    IF f.comp = "U" THEN meshX(f.i + 1)
    ELSE RatMul(R(1, 2), RatAdd(meshX(f.i), meshX(f.i + 1)))
yCoord(f) ==
    IF f.comp = "U" THEN RatMul(R(1, 2), RatAdd(meshY(f.j), meshY(f.j + 1)))
    ELSE meshY(f.j + 1)

\* cols[0], cols[1] of the G portion
GCols(f) ==
    IF f.comp = "U" THEN << pGlobalIdx(f.j, f.i), pGlobalIdx(f.j, f.i + 1) >>
    ELSE << pGlobalIdx(f.j, f.i), pGlobalIdx(f.j + 1, f.i) >>

\* the pairs (procIdx, l) in the order the two nested ET loops visit them
RECURSIVE BodyIterFrom(_)
BodyIterFrom(procIdx) ==
    IF procIdx >= NumProcs THEN << >>
    ELSE [ k \in 1 .. Len(boundaryPointIndices[procIdx]) |->
             << procIdx, boundaryPointIndices[procIdx][k] >> ]
         \o BodyIterFrom(procIdx + 1)
BodyIter == BodyIterFrom(0)

\* the proximity test of the ET portion
Near(f, l) ==
    /\ RatLt(fabs(RatSub(xCoord(f), x[l])), RatMul(R(3, 2), h))
    /\ RatLt(fabs(RatSub(yCoord(f), y[l])), RatMul(R(3, 2), h))

-----------------------------------------------------------------------------
(* The two passes of generateBNQ, per row *)

\* counts the columns inside and outside [rowStart, rowEnd)
countNumNonZeros(cols, rowStart, rowEnd) ==
    LET inside == { k \in 1 .. Len(cols) : cols[k] >= rowStart /\ cols[k] < rowEnd }
    IN  [ d |-> Cardinality(inside), o |-> Len(cols) - Cardinality(inside) ]

\* the proximity test with <= in place of <
NearInclusive(f, l) ==
    /\ RatLe(fabs(RatSub(xCoord(f), x[l])), RatMul(R(3, 2), h))
    /\ RatLe(fabs(RatSub(yCoord(f), y[l])), RatMul(R(3, 2), h))

\* pass 1: the proximity test, the column and the diagonal-block test
Pass1Near(f, l) == Near(f, l)

Pass1Col(f, procIdx, l) ==
    IF f.comp = "U" THEN bodyGlobalIndices[l]
    ELSE bodyGlobalIndices[l] + numBoundaryPointsOnProcess(procIdx)

\* the diagonal-block test without its upper limit
Pass1IsDiagNoUpper(col, p) == col >= lambdaStart(p)

Pass1IsDiag(col, p) == col >= lambdaStart(p) /\ col < lambdaEnd(p)

\* pass 1 for localIdx = k on process p: d_nnz[k], o_nnz[k]
Pass1Row(p, k) ==
    LET f == FaceOf(p, k)
        g == countNumNonZeros(GCols(f), lambdaStart(p), lambdaEnd(p))
        hits == { n \in 1 .. Len(BodyIter) : Pass1Near(f, BodyIter[n][2]) }
        diag == { n \in hits :
                    Pass1IsDiag(Pass1Col(f, BodyIter[n][1], BodyIter[n][2]), p) }
    IN  [ d |-> g.d + Cardinality(diag), o |-> g.o + Cardinality(hits \ diag) ]

\* pass 2: the proximity test, the column and the value
Pass2Near(f, l) == Near(f, l)

Pass2Col(f, procIdx, l) ==
    IF f.comp = "U" THEN bodyGlobalIndices[l]
    ELSE bodyGlobalIndices[l] + numBoundaryPointsOnProcess(procIdx)

\* value = h*delta(...), where value is declared PetscInt
Pass2Value(f, l) ==
    RealToInt(RatMul(h, delta(RatSub(xCoord(f), x[l]), RatSub(yCoord(f), y[l]), h)))

\* the gradient values with the sign of the first one lost
GValuesSameSign == << 1, 1 >>

\* values[2] of the G portion
GValues == << -1, 1 >>

\* the MatSetValues/MatSetValue calls of one row, in order: << col, value >>
Pass2Inserts(p, k) ==
    LET f == FaceOf(p, k)
        IsHit(it) == Pass2Near(f, it[2])
        hits == SelectSeq(BodyIter, IsHit)
    IN  << << GCols(f)[1], GValues[1] >>, << GCols(f)[2], GValues[2] >> >>
        \o [ n \in 1 .. Len(hits) |->
               << Pass2Col(f, hits[n][1], hits[n][2]), Pass2Value(f, hits[n][2]) >> ]

EmptyRow == [ c \in {} |-> 0 ]

\* INSERT_VALUES: a later value replaces an earlier one at the same place
RECURSIVE ApplyInserts(_, _)
ApplyInserts(row, ins) ==
    IF ins = << >> THEN row
    ELSE ApplyInserts([ c \in (DOMAIN row) \cup { ins[1][1] } |->
                          IF c = ins[1][1] THEN ins[1][2] ELSE row[c] ],
                      Tail(ins))

Pass2Row(p, k) == ApplyInserts(EmptyRow, Pass2Inserts(p, k))

\* the transpose taken of the operator already scaled by BN
MatTransposeScaled(A, p) ==
    [ c \in lambdaStart(p) .. (lambdaEnd(p) - 1) |->
        [ r \in { rr \in Rows : c \in DOMAIN A[rr] } |-> BN[r] * A[r][c] ] ]

\* MatTranspose: the rows of the transpose owned by process p
MatTranspose(A, p) ==
    [ c \in lambdaStart(p) .. (lambdaEnd(p) - 1) |->
        [ r \in { rr \in Rows : c \in DOMAIN A[rr] } |-> A[r][c] ] ]

\* MatDiagonalScale(BNQ, BN, NULL) on the rows of process p
MatDiagonalScale(A, D, p) ==
    [ r \in Rows |->
        IF qStart(p) <= r /\ r < qEnd(p)
        THEN [ c \in DOMAIN A[r] |-> D[r] * A[r][c] ]
        ELSE A[r] ]

-----------------------------------------------------------------------------
(* Inputs of the build *)

\* positions offered to body points, in half-spacings (x, y): on the U face
\* (0,0), on the V face (0,0), exactly 1.5h from the U face (0,0), outside
\* the domain and every face's neighbourhood, and on the cell corner (2,1)
\* where the partition is cut
Sites == << << 2, 1 >>, << 1, 2 >>, << 5, 1 >>, << -4, 1 >>, << 4, 2 >> >>

\* grid spacings: 0.02 and 1
HChoices == { R(1, 50), R(1, 1) }

\* BN[r] = base + (r mod 3)
BNBases == { 1 }

IncreasingSels(nb) ==
    { s \in [ 1 .. nb -> 1 .. Len(Sites) ] :
        \A a, b \in 1 .. nb : a < b => s[a] < s[b] }

RECURSIVE OwnedFrom(_, _, _, _)
OwnedFrom(own, p, l, nb) ==
    IF l > nb THEN << >>
    ELSE (IF own[l] = p THEN << l >> ELSE << >>) \o OwnedFrom(own, p, l + 1, nb)

\* the number of points before l with the same owner
RankOf(own, l) == Cardinality({ m \in 1 .. (l - 1) : own[m] = own[l] })

Unset == [ st |-> "null", v |-> << >> ]

IdleKernel ==
    /\ kx = RatInt(0) /\ kh = RatInt(1) /\ kval = RatInt(0) /\ kneg = RatInt(0)
    /\ kdone = FALSE

IdleStep ==
    /\ isRefP = FALSE /\ stepping = FALSE /\ phaseLog = << >>
    /\ stepCount = 0 /\ iterLog = [ velocity |-> "none", poisson |-> "none" ]

BuildStart ==
    /\ pc = [ p \in Procs |-> "setup" ]
    /\ failedAt = [ p \in Procs |-> "none" ]
    /\ d_nnz = [ p \in Procs |-> Unset ]
    /\ o_nnz = [ p \in Procs |-> Unset ]
    /\ BNQstate = [ p \in Procs |-> "null" ]
    /\ prealloc = [ p \in Procs |-> [ set |-> FALSE, d |-> << >>, o |-> << >> ] ]
    /\ BNQ = [ r \in Rows |-> EmptyRow ]
    /\ QT = [ p \in Procs |-> Unset ]

\* body points take distinct positions; each is owned by any process; the
\* body columns are either packed (the k-th point of a process takes the k-th
\* slot of its body block) or all on the first slot of the block
BuildInputs ==
    \E nb \in 0 .. MaxBody :
      \E sel \in IncreasingSels(nb), own \in [ 1 .. nb -> Procs ],
         hh \in HChoices, b \in BNBases :
        /\ h = hh
        /\ x = [ l \in 1 .. nb |-> RatMul(R(Sites[sel[l]][1], 2), hh) ]
        /\ y = [ l \in 1 .. nb |-> RatMul(R(Sites[sel[l]][2], 2), hh) ]
        /\ boundaryPointIndices = [ p \in Procs |-> OwnedFrom(own, p, 1, nb) ]
        /\ bodyGlobalIndices \in
             { [ l \in 1 .. nb |-> bodyStart(own[l]) + RankOf(own, l) ],
               [ l \in 1 .. nb |-> bodyStart(own[l]) ] }
        /\ BN = [ r \in Rows |-> b + (r % 3) ]

Init == BuildInputs /\ BuildStart /\ IdleKernel /\ IdleStep

-----------------------------------------------------------------------------
(* generateBNQ, one process at a time between the collective calls *)

Inputs == << h, x, y, boundaryPointIndices, bodyGlobalIndices, BN >>
Others == << Inputs, kernelVars, stepVars >>

\* CHKERRV: report the error and return from the void function
Return(F, call) ==
    /\ pc' = [ p \in Procs |-> IF p \in F THEN "returned" ELSE pc[p] ]
    /\ failedAt' = [ p \in Procs |-> IF p \in F THEN call ELSE failedAt[p] ]

Goto(p, stage) ==
    /\ pc' = [ pc EXCEPT ![p] = stage ]
    /\ UNCHANGED failedAt

\* the ownership ranges, the two nnz arrays and the pressure mapping
Setup(p) ==
    /\ pc[p] = "setup"
    /\ \/ /\ d_nnz' = [ d_nnz EXCEPT ![p] = [ st |-> "uninit", v |-> << >> ] ]
          /\ o_nnz' = [ o_nnz EXCEPT ![p] = [ st |-> "uninit", v |-> << >> ] ]
          /\ Goto(p, "pass1")
       \/ /\ Return({ p }, "PetscMalloc")
          /\ UNCHANGED << d_nnz, o_nnz , Others >>
       \/ /\ d_nnz' = [ d_nnz EXCEPT ![p] = [ st |-> "uninit", v |-> << >> ] ]
          /\ o_nnz' = [ o_nnz EXCEPT ![p] = [ st |-> "uninit", v |-> << >> ] ]
          /\ Return({ p }, "DMDAVecGetArray")
    /\ UNCHANGED << BNQstate, prealloc, BNQ, QT , Others >>

\* pass 1 over the U rows and then the V rows
Pass1(p) ==
    /\ pc[p] = "pass1"
    /\ \/ /\ d_nnz' = [ d_nnz EXCEPT ![p] =
                 [ st |-> "set",
                   v |-> [ k \in 0 .. (qLocalSize(p) - 1) |-> Pass1Row(p, k).d ] ] ]
          /\ o_nnz' = [ o_nnz EXCEPT ![p] =
                 [ st |-> "set",
                   v |-> [ k \in 0 .. (qLocalSize(p) - 1) |-> Pass1Row(p, k).o ] ] ]
          /\ Goto(p, "create")
       \/ /\ Return({ p }, "DMDAGetCorners")
          /\ UNCHANGED << d_nnz, o_nnz , Others >>
    /\ UNCHANGED << BNQstate, prealloc, BNQ, QT , Others >>

\* MatCreate, MatSetType, MatSetSizes: collective
CreateMat ==
    /\ \A p \in Procs : pc[p] = "create"
    /\ \E F \in SUBSET Procs :
         /\ pc' = [ p \in Procs |-> IF p \in F THEN "returned" ELSE "prealloc" ]
         /\ failedAt' = [ p \in Procs |-> IF p \in F THEN "MatCreate" ELSE failedAt[p] ]
         /\ BNQstate' = [ p \in Procs |-> IF p \in F THEN "null" ELSE "created" ]
    /\ BNQ' = [ r \in Rows |-> EmptyRow ]
    /\ UNCHANGED << d_nnz, o_nnz, prealloc, QT , Others >>

\* MatMPIAIJSetPreallocation: collective
Preallocate ==
    /\ \A p \in Procs : pc[p] = "prealloc"
    /\ \E F \in SUBSET Procs :
         /\ pc' = [ p \in Procs |-> IF p \in F THEN "returned" ELSE "free" ]
         /\ failedAt' = [ p \in Procs |->
                            IF p \in F THEN "MatMPIAIJSetPreallocation" ELSE failedAt[p] ]
         /\ BNQstate' = [ p \in Procs |-> IF p \in F THEN "created" ELSE "preallocated" ]
         /\ prealloc' = [ p \in Procs |->
                            IF p \in F THEN prealloc[p]
                            ELSE [ set |-> TRUE, d |-> d_nnz[p].v, o |-> o_nnz[p].v ] ]
    /\ UNCHANGED << d_nnz, o_nnz, BNQ, QT , Others >>

\* PetscFree of the two nnz arrays
FreeNnz(p) ==
    /\ pc[p] = "free"
    /\ \/ /\ d_nnz' = [ d_nnz EXCEPT ![p] = [ st |-> "freed", v |-> << >> ] ]
          /\ o_nnz' = [ o_nnz EXCEPT ![p] = [ st |-> "freed", v |-> << >> ] ]
          /\ Goto(p, "pass2")
       \/ /\ Return({ p }, "PetscFree")
          /\ UNCHANGED << d_nnz, o_nnz , Others >>
    /\ UNCHANGED << BNQstate, prealloc, BNQ, QT , Others >>

\* pass 2: rows below upTo of process p filled
FillRows(A, p, upTo) ==
    [ r \in Rows |->
        IF qStart(p) <= r /\ r < qStart(p) + upTo
        THEN Pass2Row(p, r - qStart(p))
        ELSE A[r] ]

\* pass 2 over the U rows and then the V rows; an insertion may fail at any row
Pass2(p) ==
    /\ pc[p] = "pass2"
    /\ \/ /\ BNQ' = FillRows(BNQ, p, qLocalSize(p))
          /\ BNQstate' = [ BNQstate EXCEPT ![p] = "unassembled" ]
          /\ Goto(p, "assemble")
       \/ \E kf \in 0 .. (qLocalSize(p) - 1) :
            /\ BNQ' = FillRows(BNQ, p, kf)
            /\ BNQstate' = [ BNQstate EXCEPT ![p] =
                               IF kf = 0 THEN "preallocated" ELSE "unassembled" ]
            /\ Return({ p }, "MatSetValues")
    /\ UNCHANGED << d_nnz, o_nnz, prealloc, QT , Others >>

\* MatAssemblyBegin, MatAssemblyEnd: collective
Assemble ==
    /\ \A p \in Procs : pc[p] = "assemble"
    /\ \E F \in SUBSET Procs :
         /\ pc' = [ p \in Procs |-> IF p \in F THEN "returned" ELSE "transpose" ]
         /\ failedAt' = [ p \in Procs |-> IF p \in F THEN "MatAssemblyEnd" ELSE failedAt[p] ]
         /\ BNQstate' = [ p \in Procs |-> IF p \in F THEN "unassembled" ELSE "assembled" ]
    /\ UNCHANGED << d_nnz, o_nnz, prealloc, BNQ, QT , Others >>

\* MatTranspose(BNQ, MAT_INITIAL_MATRIX, &QT): collective
Transpose ==
    /\ \A p \in Procs : pc[p] = "transpose"
    /\ \E F \in SUBSET Procs :
         /\ pc' = [ p \in Procs |-> IF p \in F THEN "returned" ELSE "scale" ]
         /\ failedAt' = [ p \in Procs |-> IF p \in F THEN "MatTranspose" ELSE failedAt[p] ]
         /\ QT' = [ p \in Procs |->
                      IF p \in F THEN QT[p]
                      ELSE [ st |-> "set", v |-> MatTranspose(BNQ, p) ] ]
    /\ UNCHANGED << d_nnz, o_nnz, BNQstate, prealloc, BNQ , Others >>

\* MatDiagonalScale(BNQ, BN, NULL)
Scale(p) ==
    /\ pc[p] = "scale"
    /\ \/ /\ BNQ' = MatDiagonalScale(BNQ, BN, p)
          /\ BNQstate' = [ BNQstate EXCEPT ![p] = "scaled" ]
          /\ Goto(p, "done")
       \/ /\ Return({ p }, "MatDiagonalScale")
          /\ UNCHANGED << BNQ, BNQstate , Others >>
    /\ UNCHANGED << d_nnz, o_nnz, prealloc, QT , Others >>

Next ==
    \/ \E p \in Procs : Setup(p)
    \/ \E p \in Procs : Pass1(p)
    \/ CreateMat
    \/ Preallocate
    \/ \E p \in Procs : FreeNnz(p)
    \/ \E p \in Procs : Pass2(p)
    \/ Assemble
    \/ Transpose
    \/ \E p \in Procs : Scale(p)

Spec == Init /\ [][Next]_vars

-----------------------------------------------------------------------------
(* The kernel as a pure function: dhRoma applied to drawn inputs *)

\* |x|/h drawn for the kernel: the points of [0, 1.5] used here at which the
\* square root is rational, one point just beyond the support, and the
\* half-spacings beyond it
KernelRs ==
    { R(0, 1), R(4, 13), R(1, 2), R(9, 13), R(1, 1), R(17, 13), R(3, 2), R(20, 13) }
    \cup { R(k, 2) : k \in 4 .. MaxHalfSteps }

KernelHs == { R(1, 50), R(4, 9), R(1, 1), R(2, 1) }

IdleBuild ==
    /\ h = RatInt(1) /\ x = << >> /\ y = << >>
    /\ boundaryPointIndices = [ p \in Procs |-> << >> ]
    /\ bodyGlobalIndices = << >>
    /\ BN = [ r \in Rows |-> 1 ]
    /\ BuildStart

KernelInit ==
    /\ kh \in KernelHs
    /\ \E r \in KernelRs : kx \in { RatMul(r, kh), RatNeg(RatMul(r, kh)) }
    /\ kval = RatInt(0) /\ kneg = RatInt(0) /\ kdone = FALSE
    /\ IdleBuild /\ IdleStep

EvalKernel ==
    /\ ~kdone
    /\ kval' = dhRoma(kx, kh)
    /\ kneg' = dhRoma(RatNeg(kx), kh)
    /\ kdone' = TRUE
    /\ UNCHANGED << kx, kh, buildVars, stepVars >>

KernelNext == EvalKernel

KernelSpec == KernelInit /\ [][KernelNext]_vars

-----------------------------------------------------------------------------
(* The projection time-stepper: NavierStokesSolver::advance *)

\* the phases with the Poisson right-hand side assembled after the solve
PhasesSwapped ==
    << "assembleRHSVelocity", "solveVelocity", "solvePoisson",
       "assembleRHSPoisson", "projectionStep" >>

\* the phases of one step, in the order advance() calls them
Phases ==
    << "assembleRHSVelocity", "solveVelocity", "assembleRHSPoisson",
       "solvePoisson", "projectionStep" >>

\* the phase that advance() calls after n phases of the step have run
NextPhase(n) == Phases[n + 1]

NoIters == [ velocity |-> "none", poisson |-> "none" ]

StepInit ==
    /\ isRefP \in BOOLEAN
    /\ stepping = FALSE /\ phaseLog = << >> /\ stepCount = 0
    /\ iterLog = NoIters
    /\ IdleBuild /\ IdleKernel

\* advance() is entered
BeginAdvance ==
    /\ ~stepping /\ stepCount < MaxSteps
    /\ stepping' = TRUE
    /\ phaseLog' = << >>
    /\ iterLog' = NoIters
    /\ UNCHANGED << isRefP, stepCount, buildVars, kernelVars >>

RunPhase(name) ==
    /\ stepping /\ Len(phaseLog) < Len(Phases)
    /\ NextPhase(Len(phaseLog)) = name
    /\ phaseLog' = Append(phaseLog, name)
    /\ UNCHANGED << isRefP, stepping, stepCount, buildVars, kernelVars >>

assembleRHSVelocity == RunPhase("assembleRHSVelocity") /\ UNCHANGED iterLog

\* the linear solver reports whether it converged; the result is recorded
solveVelocity ==
    /\ RunPhase("solveVelocity")
    /\ \E res \in { "converged", "diverged" } :
         iterLog' = [ iterLog EXCEPT !.velocity = res ]

assembleRHSPoisson == RunPhase("assembleRHSPoisson") /\ UNCHANGED iterLog

solvePoisson ==
    /\ RunPhase("solvePoisson")
    /\ \E res \in { "converged", "diverged" } :
         iterLog' = [ iterLog EXCEPT !.poisson = res ]

projectionStep == RunPhase("projectionStep") /\ UNCHANGED iterLog

\* advance() returns
EndAdvance ==
    /\ stepping /\ Len(phaseLog) = Len(Phases)
    /\ stepping' = FALSE
    /\ stepCount' = stepCount + 1
    /\ UNCHANGED << isRefP, phaseLog, iterLog, buildVars, kernelVars >>

StepNext ==
    \/ BeginAdvance
    \/ assembleRHSVelocity
    \/ solveVelocity
    \/ assembleRHSPoisson
    \/ solvePoisson
    \/ projectionStep
    \/ EndAdvance

StepSpec == StepInit /\ [][StepNext]_vars

-----------------------------------------------------------------------------
(* Properties *)

\* processes whose pass 2 has completed
Filled(p) == pc[p] \in { "assemble", "transpose", "scale", "done" }

AllDone == \A p \in Procs : pc[p] = "done"

LocalIdx(p) == 0 .. (qLocalSize(p) - 1)

\* the columns of a row's insertions are pairwise distinct
DistinctCols(ins) ==
    \A a, b \in 1 .. Len(ins) : a # b => ins[a][1] # ins[b][1]

\* the body points within 1.5h of face f on both axes, written out
InBox(f, l) ==
    LET dx == fabs(RatSub(xCoord(f), x[l]))
        dy == fabs(RatSub(yCoord(f), y[l]))
        lim == RatMul(R(3, 2), h)
    IN  dx[1] * lim[2] < lim[1] * dx[2] /\ dy[1] * lim[2] < lim[1] * dy[2]

BoxCount(f) == Cardinality({ n \in 1 .. Len(BodyIter) : InBox(f, BodyIter[n][2]) })

\* C1: for every local row whose columns are distinct, the pass-1 count
\* d_nnz + o_nnz handed to the preallocation equals the number of entries
\* pass 2 leaves in that row: the 2 gradient entries plus one per body point
\* within 1.5h of the face on both axes.
C1_CountsMatchInserts ==
    \A p \in Procs :
      (Filled(p) /\ prealloc[p].set) =>
        \A k \in LocalIdx(p) :
          DistinctCols(Pass2Inserts(p, k)) =>
            /\ prealloc[p].d[k] + prealloc[p].o[k]
                 = Cardinality(DOMAIN BNQ[qStart(p) + k])
            /\ Cardinality(DOMAIN BNQ[qStart(p) + k]) = 2 + BoxCount(FaceOf(p, k))

\* a filled row holding a body-force entry beside its gradient entries
C1_Witness ==
    \E p \in Procs :
      /\ Filled(p) /\ prealloc[p].set
      /\ \E k \in LocalIdx(p) :
           /\ DistinctCols(Pass2Inserts(p, k))
           /\ Cardinality(DOMAIN BNQ[qStart(p) + k]) >= 3
           /\ prealloc[p].d[k] + prealloc[p].o[k] >= 3

\* C10: once pass 1 has run, d_nnz[k] is the number of the row's pass-2
\* insertions whose column lies in [lambdaStart, lambdaEnd) and o_nnz[k] the
\* number of those whose column lies outside it.
C10_DiagOffdiagSplit ==
    \A p \in Procs :
      (d_nnz[p].st = "set" /\ o_nnz[p].st = "set") =>
        \A k \in LocalIdx(p) :
          LET ins == Pass2Inserts(p, k)
              loc == { a \in 1 .. Len(ins) :
                         ins[a][1] >= lambdaStart(p) /\ ins[a][1] < lambdaEnd(p) }
          IN  /\ d_nnz[p].v[k] = Cardinality(loc)
              /\ o_nnz[p].v[k] = Len(ins) - Cardinality(loc)

\* a row counted with a body-force column owned by another process
C10_Witness ==
    \E p \in Procs :
      /\ d_nnz[p].st = "set" /\ o_nnz[p].st = "set"
      /\ \E k \in LocalIdx(p) :
           /\ \E n \in 1 .. Len(BodyIter) :
                /\ BodyIter[n][1] # p
                /\ InBox(FaceOf(p, k), BodyIter[n][2])
           /\ o_nnz[p].v[k] >= 1
           /\ d_nnz[p].v[k] >= 2

\* the two pressure cells adjacent to a velocity face
AdjacentCells(f) ==
    IF f.comp = "U" THEN << pGlobalIdx(f.j, f.i), pGlobalIdx(f.j, f.i + 1) >>
    ELSE << pGlobalIdx(f.j, f.i), pGlobalIdx(f.j + 1, f.i) >>

\* the process owning column c of lambda
ColOwner(c) == CHOOSE p \in Procs : lambdaStart(p) <= c /\ c < lambdaEnd(p)

\* the entry (r, c) as QT holds it: r in the row c of the transpose
InQT(r, c) == r \in DOMAIN QT[ColOwner(c)].v[c]
QTval(r, c) == QT[ColOwner(c)].v[c][r]

\* the row as pass 2 fills it, before any scaling
Unscaled(r) == Pass2Row(RowOwner(r), r - qStart(RowOwner(r)))

\* C3 as stated: in BNQ after the build, every row's gradient block has
\* exactly two entries, -1 and +1, at the two adjacent pressure cells.
C3_Orig ==
    AllDone =>
      \A r \in Rows :
        LET g == AdjacentCells(FaceOfRow(r))
        IN  /\ (DOMAIN BNQ[r]) \cap PressureCols = { g[1], g[2] }
            /\ g[1] # g[2]
            /\ BNQ[r][g[1]] = -1
            /\ BNQ[r][g[2]] = 1

\* C3 amended: in BNQ after the build, every row r's gradient block has
\* exactly two entries, at the two adjacent pressure cells, with the values
\* -BN[r] and +BN[r]; the values -1 and +1 are those of QT, the transpose
\* formed before the scaling.
C3_ScaledGradient ==
    AllDone =>
      \A r \in Rows :
        LET g == AdjacentCells(FaceOfRow(r))
        IN  /\ (DOMAIN BNQ[r]) \cap PressureCols = { g[1], g[2] }
            /\ g[1] # g[2]
            /\ BNQ[r][g[1]] = -BN[r]
            /\ BNQ[r][g[2]] = BN[r]
            /\ { c \in PressureCols : InQT(r, c) } = { g[1], g[2] }
            /\ QTval(r, g[1]) = -1
            /\ QTval(r, g[2]) = 1

\* a completed build with a row scaled by a factor other than 1 and a
\* body-force entry in it
C3_Witness ==
    /\ AllDone
    /\ \E r \in Rows :
         /\ BN[r] # 1
         /\ Cardinality(DOMAIN BNQ[r]) >= 3
         /\ BNQ[r][AdjacentCells(FaceOfRow(r))[2]] = BN[r]

\* C4: the body-force columns present in a filled row are exactly those of
\* the body points with |dx| < 1.5h and |dy| < 1.5h; delta(dx, dy, h) is
\* positive for exactly those points and 0 for the others; and a row none of
\* whose body points is that close holds only its two gradient entries.
C4_FilterMatchesSupport ==
    \A p \in Procs :
      Filled(p) =>
        \A k \in LocalIdx(p) :
          LET f == FaceOf(p, k)
              g == AdjacentCells(f)
              its == 1 .. Len(BodyIter)
              near == { n \in its : InBox(f, BodyIter[n][2]) }
              dl(n) == delta(RatSub(xCoord(f), x[BodyIter[n][2]]),
                             RatSub(yCoord(f), y[BodyIter[n][2]]), h)
          IN  /\ (DOMAIN BNQ[qStart(p) + k]) \ { g[1], g[2] }
                   = { Pass2Col(f, BodyIter[n][1], BodyIter[n][2]) : n \in near }
              /\ \A n \in near : dl(n)[1] > 0
              /\ \A n \in its \ near : dl(n) = RatInt(0)
              /\ (near = {}) => DOMAIN BNQ[qStart(p) + k] = { g[1], g[2] }

\* a filled row with one body point inside the neighbourhood and another
\* exactly 1.5h away along x
C4_Witness ==
    \E p \in Procs :
      /\ Filled(p)
      /\ \E k \in LocalIdx(p) :
           LET f == FaceOf(p, k)
           IN  /\ \E l \in DOMAIN x : InBox(f, l)
               /\ \E l \in DOMAIN x :
                    /\ fabs(RatSub(xCoord(f), x[l])) = RatMul(R(3, 2), h)
                    /\ RatLt(fabs(RatSub(yCoord(f), y[l])), RatMul(R(3, 2), h))

\* C9: once MatTranspose has run on every process, QT holds exactly the
\* transpose of the operator as pass 2 filled it, and MatDiagonalScale
\* multiplies row r of BNQ by BN[r], changing neither QT nor the columns
\* present in BNQ.
C9_TransposeThenScale ==
    (\A p \in Procs : pc[p] \in { "scale", "done" }) =>
      /\ \A p \in Procs : QT[p].st = "set"
      /\ \A r \in Rows :
           /\ \A c \in 0 .. (LambdaSize - 1) :
                /\ InQT(r, c) <=> c \in DOMAIN Unscaled(r)
                /\ InQT(r, c) => QTval(r, c) = Unscaled(r)[c]
           /\ DOMAIN BNQ[r] = DOMAIN Unscaled(r)
           /\ \A c \in DOMAIN BNQ[r] :
                BNQ[r][c] = (IF pc[RowOwner(r)] = "done" THEN BN[r] ELSE 1)
                              * Unscaled(r)[c]

\* a completed build whose transpose holds a nonzero body-force value in a
\* row scaled by a factor other than 1
C9_Witness ==
    /\ AllDone
    /\ \E r \in Rows :
         \E c \in (DOMAIN BNQ[r]) \ PressureCols :
           /\ BN[r] # 1
           /\ QTval(r, c) > 0
           /\ BNQ[r][c] = BN[r] * QTval(r, c)

\* C2 as stated, read on the unscaled operator that QT holds: with a single
\* body point lying on a velocity face, the point's body-force column holds
\* h*dhRoma(0,h)*dhRoma(0,h) in that face's row and nothing but 0 in the
\* other rows.
C2_Orig ==
    (AllDone /\ Len(BodyIter) = 1) =>
      \A r \in Rows :
        LET f == FaceOfRow(r)
            l == BodyIter[1][2]
            col == Pass2Col(f, BodyIter[1][1], l)
        IN  (xCoord(f) = x[l] /\ yCoord(f) = y[l]) =>
              /\ InQT(r, col)
              /\ RatInt(QTval(r, col))
                   = RatMul(h, RatMul(dhRoma(RatInt(0), h), dhRoma(RatInt(0), h)))
              /\ \A r2 \in Rows \ { r } : InQT(r2, col) => QTval(r2, col) = 0

\* the calls of generateBNQ that involve no other process
LocalCalls ==
    { "PetscMalloc", "DMDAVecGetArray", "DMDAGetCorners", "PetscFree",
      "MatSetValues", "MatDiagonalScale" }

\* the positions at which a process waits for all the others
CollectiveStages == { "create", "prealloc", "assemble", "transpose" }

\* C6 as stated: a process whose build failed is left with no partially
\* built operator: BNQ and QT are not created, or not left unassembled or
\* unscaled.
C6_Orig ==
    \A p \in Procs :
      pc[p] = "returned" => (BNQstate[p] = "null" /\ QT[p].st = "null")

\* C7 as stated: whatever the outcome of a process's local calls, no process
\* waits in a collective call that another process never enters.
C7_Orig ==
    \A p, q \in Procs :
      ~ ( /\ pc[p] \in CollectiveStages
          /\ pc[q] = "returned"
          /\ failedAt[q] \in LocalCalls )

\* C5: dhRoma is even in x, vanishes for |x| > 1.5h, is never negative, and
\* its two branches agree at |x| = 0.5h while the outer branch gives 0 at
\* |x| = 1.5h.
C5_KernelShape ==
    kdone =>
      /\ kval = kneg
      /\ (RatGt(fabs(kx), RatMul(R(3, 2), kh)) => kval = RatInt(0))
      /\ kval[1] >= 0
      /\ dhRomaInner(R(1, 2), kh) = dhRomaOuter(R(1, 2), kh)
      /\ dhRomaOuter(R(3, 2), kh) = RatInt(0)

\* the kernel evaluated at a negative displacement inside the support
C5_Witness ==
    /\ kdone /\ kx[1] < 0
    /\ RatLt(fabs(kx), RatMul(R(3, 2), kh))
    /\ kval[1] > 0

\* C8: every advance() runs assembleRHSVelocity, solveVelocity,
\* assembleRHSPoisson, solvePoisson, projectionStep once each in that order,
\* and isRefP never changes after initialization.
C8_PhaseOrder ==
    /\ [](LET order == << "assembleRHSVelocity", "solveVelocity",
                          "assembleRHSPoisson", "solvePoisson", "projectionStep" >>
          IN  /\ Len(phaseLog) <= 5
              /\ phaseLog = SubSeq(order, 1, Len(phaseLog))
              /\ (~stepping /\ stepCount > 0) => phaseLog = order)
    /\ [][isRefP' = isRefP]_vars

\* a second step completed after a solve that did not converge
C8_Witness ==
    /\ ~stepping /\ stepCount >= 2 /\ Len(phaseLog) = 5
    /\ iterLog.velocity = "diverged"

====
